---- MODULE Spec2Model ----
(***************************************************************************)
(* Model of src/stretcher_bar_size.py: the stretcher-bar size domain, the  *)
(* retail price tables, the print-price lookup with its least-squares      *)
(* model, the fan neighbourhood and suggest_stretcher_frames.              *)
(*                                                                         *)
(* Number representation.  Python floats are modelled by exact rationals:  *)
(*   - money is held in integer cents (the tables hold 2-decimal prices    *)
(*     and every cost is passed through round(_, 2));                      *)
(*   - a real number is a pair <<num, den>> with den > 0, in lowest terms; *)
(*   - a physical target (target_width_in / target_height_in) is given in  *)
(*     half inches, so 41 stands for 20.5 in;                              *)
(*   - Optional[...] is a sequence: <<>> is None, <<v>> is the value v.    *)
(***************************************************************************)
EXTENDS Integers, Sequences, FiniteSets, TLC

VARIABLES
    _STRETCHER_SIZES,   \* module global, line 27
    _FRAME_CANDIDATES,  \* module global, lines 28-30
    HEAVY_PRICES,       \* module global, lines 34-54 (cents)
    STANDARD_PRICES,    \* module global, lines 55-62 (cents)
    PRINT_PRICES,       \* module global, lines 68-81 (dict order kept; dollars)
    _slope,             \* module global, lines 92-93 (<<num, den>>, dollars per sq in)
    _intercept,         \* module global, line 94     (<<num, den>>, dollars)
    pc,                 \* "idle", or which function has just returned
    call,               \* the arguments of the call that has just returned
    result,             \* what that call returned or raised
    memo                \* what the caller kept of an earlier suggest_stretcher_frames call

globals == <<_STRETCHER_SIZES, _FRAME_CANDIDATES, HEAVY_PRICES, STANDARD_PRICES,
             PRINT_PRICES, _slope, _intercept>>
vars == <<_STRETCHER_SIZES, _FRAME_CANDIDATES, HEAVY_PRICES, STANDARD_PRICES,
          PRINT_PRICES, _slope, _intercept, pc, call, result, memo>>

-----------------------------------------------------------------------------
(* Optional values and rationals                                           *)

None == <<>>
Some(v) == <<v>>
IsNone(o) == o = <<>>
Val(o) == o[1]

Abs(x) == IF x < 0 THEN -x ELSE x
Min2(a, b) == IF a <= b THEN a ELSE b

RECURSIVE GCD(_, _)
GCD(a, b) == IF b = 0 THEN a ELSE GCD(b, a % b)

\* num/den in lowest terms, den > 0 (den # 0 is the caller's obligation).
Frac(num, den) ==
    LET s == IF den < 0 THEN -1 ELSE 1
        g == GCD(Abs(num), Abs(den))
    IN  <<(s * num) \div g, (s * den) \div g>>

\* a < b, by comparing the integer parts and then the reciprocals of the
\* fractional parts, so that no product leaves the integer range.
RECURSIVE FracLess(_, _)
FracLess(a, b) ==
    LET qa == a[1] \div a[2]
        qb == b[1] \div b[2]
        ra == a[1] % a[2]
        rb == b[1] % b[2]
    IN  IF qa # qb THEN qa < qb
        ELSE IF rb = 0 THEN FALSE
        ELSE IF ra = 0 THEN TRUE
        ELSE FracLess(<<b[2], rb>>, <<a[2], ra>>)
FracMul(a, b) ==
    LET g1 == GCD(Abs(a[1]), b[2])
        g2 == GCD(Abs(b[1]), a[2])
    IN  Frac((a[1] \div g1) * (b[1] \div g2), (a[2] \div g2) * (b[2] \div g1))
FracAbs(a) == <<Abs(a[1]), a[2]>>

\* Python round(x) of the rational num/den (den > 0): nearest integer, ties to even.
PyRound(num, den) ==
    LET f == num \div den            \* floor
        r2 == 2 * (num - f * den)    \* twice the fractional part, times den
    IN  IF r2 < den THEN f
        ELSE IF r2 > den THEN f + 1
        ELSE IF f % 2 = 0 THEN f ELSE f + 1

\* <<q, r>> with a * b = q * d + r and 0 <= r < d, for a, b >= 0 and d > 0,
\* by doubling, so that no intermediate product leaves the integer range.
RECURSIVE MulDiv(_, _, _)
MulDiv(a, b, d) ==
    IF b = 0 THEN <<0, 0>>
    ELSE LET h == MulDiv(a, b \div 2, d)
             r2 == 2 * h[2]
             q2 == 2 * h[1] + (r2 \div d)
             ra == (r2 % d) + (IF b % 2 = 1 THEN a % d ELSE 0)
             qa == q2 + (IF b % 2 = 1 THEN a \div d ELSE 0)
         IN  <<qa + (ra \div d), ra % d>>

-----------------------------------------------------------------------------
(* Sequences                                                               *)

\* Python s[:n] for n >= 0.
Take(s, n) == SubSeq(s, 1, Min2(n, Len(s)))

\* Python s[-n:] for n >= 0 (s[-0:] is the whole list).
LastSlice(s, n) ==
    IF n = 0 THEN s ELSE SubSeq(s, Len(s) - Min2(n, Len(s)) + 1, Len(s))

Contains(s, x) == \E i \in 1..Len(s) : s[i] = x

\* The same sequence with every element evaluated once.
Materialize(s) == s \o <<>>

\* Python range(a, b, step) as a list, step > 0.
Range(a, b, step) ==
    IF b <= a THEN <<>>
    ELSE [i \in 1..(((b - a - 1) \div step) + 1) |-> a + (i - 1) * step]

-----------------------------------------------------------------------------
(* Size domain, lines 11-30                                                *)

MIN_SIZE == 14
MAX_SINGLE == 86
MAX_DOUBLE == 98

\* get_stretcher_sizes with max_double left out of the second range.
get_stretcher_sizes_exclusive(min_size, max_single, max_double) ==
    Range(min_size, max_single + 1, 1) \o Range(max_single + 2, max_double, 2)

\* Lines 11-23.
get_stretcher_sizes(min_size, max_single, max_double) ==
    Range(min_size, max_single + 1, 1) \o Range(max_single + 2, max_double + 1, 2)

\* [(w, h) for w in sizes for h in sizes]: width-major.
CrossProduct(ws, hs) ==
    [k \in 1..(Len(ws) * Len(hs)) |->
        <<ws[((k - 1) \div Len(hs)) + 1], hs[((k - 1) % Len(hs)) + 1]>>]

-----------------------------------------------------------------------------
(* Price tables, lines 34-81                                               *)

HeavyPricesTable ==
    8 :> 531 @@ 9 :> 535 @@ 10 :> 547 @@ 11 :> 559 @@ 12 :> 559 @@ 13 :> 594 @@
    14 :> 594 @@ 15 :> 687 @@ 16 :> 687 @@ 17 :> 736 @@ 18 :> 736 @@ 19 :> 818 @@
    20 :> 818 @@ 22 :> 876 @@ 23 :> 957 @@ 24 :> 961 @@ 26 :> 1104 @@ 27 :> 1126 @@
    28 :> 1208 @@ 29 :> 1270 @@ 30 :> 1269 @@ 31 :> 1313 @@ 32 :> 1397 @@ 33 :> 1424 @@
    34 :> 1493 @@ 35 :> 1505 @@ 36 :> 1517 @@ 37 :> 1625 @@ 38 :> 1660 @@ 39 :> 1714 @@
    40 :> 1814 @@ 41 :> 1835 @@ 42 :> 1837 @@ 43 :> 1929 @@ 44 :> 1796 @@ 45 :> 1977 @@
    46 :> 1979 @@ 48 :> 2085 @@ 50 :> 2135 @@ 52 :> 2227 @@ 54 :> 2274 @@ 56 :> 2359 @@
    60 :> 2524 @@ 61 :> 2524 @@ 62 :> 2524 @@ 63 :> 2530 @@ 64 :> 2524 @@ 65 :> 2593 @@
    66 :> 2595 @@ 67 :> 2593 @@ 68 :> 2595 @@ 69 :> 2772 @@ 70 :> 2772 @@ 71 :> 2772 @@
    72 :> 2772 @@ 73 :> 3039 @@ 74 :> 3047 @@ 75 :> 3039 @@ 76 :> 3047 @@ 77 :> 3101 @@
    78 :> 3162 @@ 79 :> 3168 @@ 80 :> 3425 @@ 81 :> 3425 @@ 82 :> 3683 @@ 83 :> 3682 @@
    84 :> 3683 @@ 85 :> 3682 @@ 86 :> 4445 @@ 88 :> 4445 @@ 90 :> 5059 @@ 92 :> 5059 @@
    94 :> 5394 @@ 96 :> 5394 @@ 98 :> 5768

StandardPricesTable ==
    8 :> 149 @@ 9 :> 148 @@ 10 :> 162 @@ 11 :> 335 @@ 12 :> 195 @@ 13 :> 215 @@
    14 :> 236 @@ 15 :> 244 @@ 16 :> 270 @@ 17 :> 281 @@ 18 :> 280 @@ 19 :> 282 @@
    20 :> 341 @@ 21 :> 353 @@ 22 :> 348 @@ 23 :> 354 @@ 24 :> 357 @@ 25 :> 378 @@
    26 :> 250 @@ 27 :> 446 @@ 28 :> 471 @@ 29 :> 522 @@ 30 :> 512 @@ 31 :> 538 @@
    32 :> 540 @@ 33 :> 598 @@ 34 :> 547 @@ 35 :> 569 @@ 36 :> 612 @@ 38 :> 667 @@
    40 :> 678 @@ 42 :> 695 @@ 44 :> 802 @@ 46 :> 711 @@ 48 :> 722 @@ 50 :> 753 @@
    52 :> 772 @@ 54 :> 774 @@ 60 :> 811

\* <<long_side, short_side, price in dollars>>, in the dict's insertion order.
PrintPricesTable == <<
    <<60, 57, 106>>,
    <<60, 50, 93>>,
    <<60, 40, 75>>,
    <<50, 40, 63>>,
    <<40, 40, 50>>,
    <<40, 30, 38>>,
    <<40, 20, 25>>,
    <<35, 23, 25>>,
    <<30, 20, 19>>,
    <<20, 20, 13>>,
    <<20, 10, 7>>,
    <<10, 10, 3>> >>

PRINT_BORDER_PER_SIDE_IN_X2 == 3     \* 2 * PRINT_BORDER_PER_SIDE_IN, inches
PRINT_SHIPPING_USD == 1000           \* cents

-----------------------------------------------------------------------------
(* Least-squares print-price model, lines 84-94                            *)

RECURSIVE Sum(_)
Sum(s) == IF s = <<>> THEN 0 ELSE Head(s) + Sum(Tail(s))

SampleAreas(pp) == [i \in 1..Len(pp) |-> pp[i][1] * pp[i][2]]
SamplePrices(pp) == [i \in 1..Len(pp) |-> pp[i][3]]

\* slope = sum((a - mean_a)(p - mean_p)) / sum((a - mean_a)^2).  Both sums are
\* taken times n^2 (n*a - sum_a is an integer), which leaves the quotient as it is.
FitSlope(pp) ==
    LET n == Len(pp)
        a == SampleAreas(pp)
        p == SamplePrices(pp)
        sa == Sum(a)
        sp == Sum(p)
        sxy == Sum([i \in 1..n |-> (n * a[i] - sa) * (n * p[i] - sp)])
        sxx == Sum([i \in 1..n |-> (n * a[i] - sa) * (n * a[i] - sa)])
    IN  Frac(sxy, sxx)

\* intercept = mean_p - slope * mean_a, for a slope >= 0.
FitIntercept(pp, slope) ==
    LET n == Len(pp)
        sa == Sum(SampleAreas(pp))
        sp == Sum(SamplePrices(pp))
        m == MulDiv(slope[1], sa, slope[2])       \* slope * sa = m[1] + m[2]/den
    IN  Frac((sp - m[1]) * slope[2] - m[2], n * slope[2])

-----------------------------------------------------------------------------
(* _print_prices, lines 96-120                                             *)

\* min(fits, key=price): the first entry of the least price.
MinByPrice(fits) ==
    LET i == CHOOSE i \in 1..Len(fits) :
                /\ \A j \in 1..Len(fits) : fits[i][3] <= fits[j][3]
                /\ \A j \in 1..(i - 1) : fits[j][3] > fits[i][3]
    IN  fits[i]

\* round(_intercept + _slope * area, 2) in cents, for _slope, _intercept >= 0:
\* the nearest cent of the exact value.
ModelPriceCents(area) ==
    LET m == MulDiv(100 * _slope[1], area, _slope[2])
        c == <<(100 * _intercept[1]) \div _intercept[2], (100 * _intercept[1]) % _intercept[2]>>
        g == GCD(_slope[2], _intercept[2])
        l == (_slope[2] \div g) * _intercept[2]                 \* common denominator
        fr == m[2] * (l \div _slope[2]) + c[2] * (l \div _intercept[2])
    IN  m[1] + c[1] + ((2 * fr + l) \div (2 * l))

\* _print_prices without the sort of line 103: the width is taken for the long side.
_print_prices_as_given(width_in, height_in) ==
    LET fits == SelectSeq(PRINT_PRICES,
                          LAMBDA t : width_in <= t[1] /\ height_in <= t[2])
        best == MinByPrice(fits)
    IN  <<IF fits # <<>> THEN Some(100 * best[3]) ELSE None,
          ModelPriceCents(width_in * height_in),
          IF fits # <<>> THEN <<best[1], best[2]>> ELSE <<0, 0>>>>

\* Returns <<table price (Optional, cents), model price (cents), table size>>.
_print_prices(width_in, height_in) ==
    LET long_dim == IF width_in >= height_in THEN width_in ELSE height_in
        short_dim == IF width_in >= height_in THEN height_in ELSE width_in
        fits == SelectSeq(PRINT_PRICES,
                          LAMBDA t : long_dim <= t[1] /\ short_dim <= t[2])
        best == MinByPrice(fits)
        tbl_price == IF fits # <<>> THEN Some(100 * best[3]) ELSE None
        tbl_size == IF fits # <<>> THEN <<best[1], best[2]>> ELSE <<0, 0>>
        model_price == ModelPriceCents(width_in * height_in)
    IN  <<tbl_price, model_price, tbl_size>>

-----------------------------------------------------------------------------
(* Fan-scan helpers, lines 125-179, and _bar_price, lines 182-184          *)

RECURSIVE SortedSeqOf(_)
SortedSeqOf(S) ==
    IF S = {} THEN <<>>
    ELSE LET m == CHOOSE m \in S : \A o \in S : m <= o
         IN  <<m>> \o SortedSeqOf(S \ {m})

\* x is a rational <<num, den>>.
_nearest_sizes(x, fan) ==
    LET x_round == PyRound(x[1], x[2])
        below == SelectSeq(_STRETCHER_SIZES, LAMBDA s : s <= x_round)
        above == SelectSeq(_STRETCHER_SIZES, LAMBDA s : s >= x_round)
        picks == LastSlice(below, fan) \o Take(above, fan)
    IN  SortedSeqOf({picks[i] : i \in 1..Len(picks)})

\* target_width_in, target_height_in: Optional half inches; target_dpi: Optional
\* rational.  Returns [raised, frames].
_fan_candidates(img_w_px, img_h_px, target_width_in, target_height_in, target_dpi, fan) ==
    IF ~IsNone(target_width_in) \/ ~IsNone(target_height_in) THEN
        IF ~IsNone(target_width_in) THEN
            LET w_fixed == PyRound(Val(target_width_in), 2)
                h_ideal == Frac(w_fixed * img_h_px, img_w_px)          \* w_fixed / ar
            IN  [raised |-> "", frames |-> CrossProduct(<<w_fixed>>, _nearest_sizes(h_ideal, fan))]
        ELSE
            LET h_fixed == PyRound(Val(target_height_in), 2)
                w_ideal == Frac(h_fixed * img_w_px, img_h_px)          \* h_fixed * ar
            IN  [raised |-> "", frames |-> CrossProduct(_nearest_sizes(w_ideal, fan), <<h_fixed>>)]
    ELSE IF ~IsNone(target_dpi) THEN
        LET w_ideal == Frac(img_w_px * Val(target_dpi)[2], Val(target_dpi)[1])
            h_ideal == Frac(img_h_px * Val(target_dpi)[2], Val(target_dpi)[1])
        IN  [raised |-> "", frames |-> CrossProduct(_nearest_sizes(w_ideal, fan),
                                                     _nearest_sizes(h_ideal, fan))]
    ELSE [raised |-> "ValueError", frames |-> <<>>]

_bar_price(length, heavy) ==
    LET table == IF heavy THEN HEAVY_PRICES ELSE STANDARD_PRICES
    IN  IF length \in DOMAIN table THEN Some(table[length]) ELSE None

-----------------------------------------------------------------------------
(* suggest_stretcher_frames, lines 187-382                                 *)
(* A call c is a record of the arguments: img_width_px, img_height_px,     *)
(* target_dpi (Optional integer), target_width_in, target_height_in        *)
(* (Optional half inches), tolerance_pct, max_suggestions, use_fan,        *)
(* fan_span.                                                               *)

\* sum(dpi_inputs), lines 241-242.
DpiInputs(c) ==
    (IF IsNone(c.target_dpi) THEN 0 ELSE 1)
    + (IF IsNone(c.target_width_in) THEN 0 ELSE 1)
    + (IF IsNone(c.target_height_in) THEN 0 ELSE 1)

\* InputError as the docstring of lines 211-213 has it: with both physical
\* dimensions supplied, width takes precedence.
InputErrorWidthPrecedence(c) ==
    IF IsNone(c.target_dpi) /\ IsNone(c.target_width_in) /\ IsNone(c.target_height_in)
    THEN "ValueError"
    ELSE IF ~IsNone(c.target_dpi) THEN ""
    ELSE IF ~IsNone(c.target_width_in)
         THEN (IF Val(c.target_width_in) <= 0 THEN "ValueError" ELSE "")
         ELSE (IF Val(c.target_height_in) <= 0 THEN "ValueError" ELSE "")

\* The ValueError of lines 242-253, or "" when the arguments pass.
InputError(c) ==
    IF DpiInputs(c) # 1 THEN "ValueError"
    ELSE IF ~IsNone(c.target_dpi) THEN ""
    ELSE IF ~IsNone(c.target_width_in)
         THEN (IF Val(c.target_width_in) <= 0 THEN "ValueError" ELSE "")
         ELSE (IF Val(c.target_height_in) <= 0 THEN "ValueError" ELSE "")

\* target_dpi after lines 245-253, as a rational <<num, den>> with den > 0, not
\* reduced (the physical target is in half inches).
ImpliedDpi(c) ==
    IF ~IsNone(c.target_dpi) THEN <<Val(c.target_dpi), 1>>
    ELSE IF ~IsNone(c.target_width_in)
         THEN <<2 * c.img_width_px, Val(c.target_width_in)>>
         ELSE <<2 * c.img_height_px, Val(c.target_height_in)>>

\* min_dpi <= px / bar <= max_dpi (lines 256-257, 283), for bar > 0 and dpi >= 0.
InBand(dpi, tol, px, bar) ==
    /\ dpi[1] * (100 - tol) * bar <= px * dpi[2] * 100
    /\ px * dpi[2] * 100 <= dpi[1] * (100 + tol) * bar

\* Admissible with the band tested on the width alone.
AdmissibleWidthOnly(c, dpi, frame) ==
    InBand(dpi, c.tolerance_pct, c.img_width_px, frame[1])

Admissible(c, dpi, frame) ==
    /\ InBand(dpi, c.tolerance_pct, c.img_width_px, frame[1])
    /\ InBand(dpi, c.tolerance_pct, c.img_height_px, frame[2])

\* req_area, lines 260-262, for dpi > 0.
ReqArea(c, dpi) ==
    FracMul(Frac(c.img_width_px * dpi[2], dpi[1]), Frac(c.img_height_px * dpi[2], dpi[1]))

\* (bar_w * bar_h - req_area) / req_area * 100, lines 286 and 339.
PctAreaDelta(bar_w, bar_h, req_area) ==
    FracMul(Frac(bar_w * bar_h * req_area[2] - req_area[1], req_area[1]), <<100, 1>>)

\* "x is not None" (main pass) against the truthiness test "if x" (back-fill).
Present(o) == ~IsNone(o)
Truthy(o) == ~IsNone(o) /\ Val(o) # 0

\* MinOfSome that prefers the first value to the cheaper one.
FirstOfSome(a, b) == IF IsNone(a) THEN b ELSE a

\* min of the Optional values that are there; None when none is.
MinOfSome(a, b) ==
    IF IsNone(a) THEN b ELSE IF IsNone(b) THEN a ELSE Some(Min2(Val(a), Val(b)))

\* One pass of the main loop for a frame inside the band, lines 286-328.
MainEntry(c, req_area, frame) ==
    LET bar_w == frame[1]
        bar_h == frame[2]
        hp_w == _bar_price(bar_w, TRUE)
        hp_h == _bar_price(bar_h, TRUE)
        heavy_cost == IF Present(hp_w) /\ Present(hp_h)
                      THEN Some(2 * (Val(hp_w) + Val(hp_h))) ELSE None
        sp_w == _bar_price(bar_w, FALSE)
        sp_h == _bar_price(bar_h, FALSE)
        std_cost == IF Present(sp_w) /\ Present(sp_h)
                    THEN Some(2 * (Val(sp_w) + Val(sp_h))) ELSE None
        print_w == bar_w + PRINT_BORDER_PER_SIDE_IN_X2
        print_h == bar_h + PRINT_BORDER_PER_SIDE_IN_X2
        pp == _print_prices(print_w, print_h)
        print_cost_tbl == IF Present(pp[1]) THEN Some(Val(pp[1]) + PRINT_SHIPPING_USD) ELSE None
        print_cost_model == pp[2] + PRINT_SHIPPING_USD
        bar_cost == IF Present(heavy_cost) /\ Present(std_cost)
                    THEN Some(Min2(Val(heavy_cost), Val(std_cost)))
                    ELSE IF Present(heavy_cost) THEN heavy_cost ELSE std_cost
        chosen_print == MinOfSome(print_cost_tbl, Some(print_cost_model))
        final_total == IF Present(bar_cost) THEN Some(Val(bar_cost) + Val(chosen_print)) ELSE None
    IN  [bar_w |-> bar_w, bar_h |-> bar_h,
         dpi_x |-> Frac(c.img_width_px, bar_w), dpi_y |-> Frac(c.img_height_px, bar_h),
         pct_area_delta |-> PctAreaDelta(bar_w, bar_h, req_area),
         heavy_cost |-> heavy_cost, std_cost |-> std_cost,
         print_cost_tbl |-> print_cost_tbl, print_cost_model |-> print_cost_model,
         tbl_size |-> pp[3], print_w |-> print_w, print_h |-> print_h,
         final_total |-> final_total]

\* One pass of the back-fill loop for a frame inside the band, lines 339-369.
BackfillEntry(c, req_area, frame) ==
    LET bar_w == frame[1]
        bar_h == frame[2]
        hp_w == _bar_price(bar_w, TRUE)
        hp_h == _bar_price(bar_h, TRUE)
        heavy_cost == IF Truthy(hp_w) /\ Truthy(hp_h)
                      THEN Some(2 * (Val(hp_w) + Val(hp_h))) ELSE None
        sp_w == _bar_price(bar_w, FALSE)
        sp_h == _bar_price(bar_h, FALSE)
        std_cost == IF Truthy(sp_w) /\ Truthy(sp_h)
                    THEN Some(2 * (Val(sp_w) + Val(sp_h))) ELSE None
        print_w == bar_w + PRINT_BORDER_PER_SIDE_IN_X2
        print_h == bar_h + PRINT_BORDER_PER_SIDE_IN_X2
        pp == _print_prices(print_w, print_h)
        print_cost_tbl == IF Truthy(pp[1]) THEN Some(Val(pp[1]) + PRINT_SHIPPING_USD) ELSE None
        print_cost_model == pp[2] + PRINT_SHIPPING_USD
        bar_cost == IF Truthy(heavy_cost) /\ Truthy(std_cost)
                    THEN Some(Min2(Val(heavy_cost), Val(std_cost)))
                    ELSE IF Truthy(heavy_cost) THEN heavy_cost ELSE std_cost
        chosen_print == MinOfSome(IF Truthy(print_cost_tbl) THEN print_cost_tbl ELSE None,
                                  IF print_cost_model # 0 THEN Some(print_cost_model) ELSE None)
        final_total == IF Truthy(bar_cost) /\ Present(chosen_print)
                       THEN Some(Val(bar_cost) + Val(chosen_print)) ELSE None
    IN  [bar_w |-> bar_w, bar_h |-> bar_h,
         dpi_x |-> Frac(c.img_width_px, bar_w), dpi_y |-> Frac(c.img_height_px, bar_h),
         pct_area_delta |-> PctAreaDelta(bar_w, bar_h, req_area),
         heavy_cost |-> heavy_cost, std_cost |-> std_cost,
         print_cost_tbl |-> print_cost_tbl, print_cost_model |-> print_cost_model,
         tbl_size |-> pp[3], print_w |-> print_w, print_h |-> print_h,
         final_total |-> final_total]

\* min() at line 361 is handed an empty sequence (and raises ValueError) when
\* neither print cost is truthy.
BackfillMinIsEmpty(frame) ==
    LET pp == _print_prices(frame[1] + PRINT_BORDER_PER_SIDE_IN_X2,
                            frame[2] + PRINT_BORDER_PER_SIDE_IN_X2)
    IN  /\ ~(Truthy(pp[1]) /\ Val(pp[1]) + PRINT_SHIPPING_USD # 0)
        /\ pp[2] + PRINT_SHIPPING_USD = 0

\* PrimaryKey without the one-third weight of a wrap-around.
PrimaryKeyUnweighted(e) == FracAbs(e.pct_area_delta)

\* The sort key of lines 377-380.
PrimaryKey(e) ==
    IF e.pct_area_delta[1] < 0
    THEN Frac(-e.pct_area_delta[1], 3 * e.pct_area_delta[2])
    ELSE e.pct_area_delta

\* SecondaryKey on h/w in place of w/h.
SecondaryKeyInverted(c, e) ==
    FracAbs(Frac(e.bar_h * c.img_height_px - e.bar_w * c.img_width_px,
                 e.bar_w * c.img_height_px))

\* abs(bar_w / bar_h - img_width_px / img_height_px), line 379.
SecondaryKey(c, e) ==
    FracAbs(Frac(e.bar_w * c.img_height_px - e.bar_h * c.img_width_px,
                 e.bar_h * c.img_height_px))

\* The key tuples compare as Python compares (primary, secondary).
KeyLess(ka, kb) ==
    \/ FracLess(ka[1], kb[1])
    \/ /\ ka[1] = kb[1]
       /\ FracLess(ka[2], kb[2])

\* The values below are bound once with "x \in {e}": the operators that use
\* them get values, not expressions to evaluate again at every use.

SortKeys(c, s) ==
    Materialize([i \in 1..Len(s) |-> <<PrimaryKey(s[i]), SecondaryKey(c, s[i])>>])

\* Where a stable ascending sort puts the entry at position i: behind every entry
\* of a smaller key and every earlier entry of an equal key.
SortPlaces(key) ==
    Materialize([i \in 1..Len(key) |->
        Cardinality({j \in 1..Len(key) :
                        \/ KeyLess(key[j], key[i])
                        \/ (j < i /\ ~KeyLess(key[i], key[j]))}) + 1])

Permuted(s, place) ==
    Materialize([r \in 1..Len(s) |-> s[CHOOSE i \in 1..Len(s) : place[i] = r]])

\* list.sort(key=...), lines 376-381: ascending and stable.
SortCandidates(c, s) ==
    CHOOSE r \in {Permuted(s, place) :
                    place \in {SortPlaces(key) : key \in {SortKeys(c, s)}}} : TRUE

Raised(what) ==
    [raised |-> what, value |-> <<>>, candidate_frames |-> <<>>, candidates |-> <<>>,
     n_main |-> 0]

HasZeroBar(frames) == \E i \in 1..Len(frames) : frames[i][1] = 0 \/ frames[i][2] = 0

\* candidate_frames, lines 265-275.
CandidateFrames(c, dpi) ==
    IF c.use_fan
    THEN _fan_candidates(c.img_width_px, c.img_height_px, c.target_width_in,
                         c.target_height_in, Some(dpi), c.fan_span)
    ELSE [raised |-> "", frames |-> _FRAME_CANDIDATES]

\* The frames the main loop keeps, lines 278-284.
KeptFrames(c, dpi, candidate_frames) ==
    SelectSeq(candidate_frames, LAMBDA f : Admissible(c, dpi, f))

\* candidates when the main loop ends, lines 277-328.
MainPass(c, dpi, kept) ==
    Materialize([i \in 1..Len(kept) |-> MainEntry(c, ReqArea(c, dpi), kept[i])])

\* The frames the back-fill loop appends, lines 331-338 and 370-371: frames of the
\* brute-force pool not in candidate_frames (seen) and inside the band, in pool
\* order, until the list holds max_suggestions entries.
BackfillFrames(c, dpi, seen, n_main) ==
    IF c.use_fan /\ n_main < c.max_suggestions
    THEN Take(SelectSeq(_FRAME_CANDIDATES,
                        LAMBDA f : f \notin seen /\ Admissible(c, dpi, f)),
              c.max_suggestions - n_main)
    ELSE <<>>

BackfillPass(c, dpi, pool) ==
    Materialize([i \in 1..Len(pool) |-> BackfillEntry(c, ReqArea(c, dpi), pool[i])])

\* The sort and the cut, lines 375-382.
Ranked(c, candidate_frames, main, pool, candidates) ==
    IF \E i \in 1..Len(pool) : BackfillMinIsEmpty(pool[i]) THEN Raised("ValueError")
    ELSE [raised |-> "",
          value |-> Take(SortCandidates(c, candidates), c.max_suggestions),
          candidate_frames |-> candidate_frames,
          candidates |-> candidates,
          n_main |-> Len(main)]

Filled(c, dpi, candidate_frames, main, pool) ==
    CHOOSE r \in {Ranked(c, candidate_frames, main, pool, candidates) :
                    candidates \in {main \o BackfillPass(c, dpi, pool)}} : TRUE

WithBackfill(c, dpi, candidate_frames, main) ==
    CHOOSE r \in {Filled(c, dpi, candidate_frames, main, pool) :
                    pool \in {BackfillFrames(c, dpi, seen, Len(main)) :
                                seen \in {IF c.use_fan
                                          THEN {candidate_frames[i] : i \in 1..Len(candidate_frames)}
                                          ELSE {}}}} : TRUE

MainAndBackfill(c, dpi, candidate_frames) ==
    CHOOSE r \in {WithBackfill(c, dpi, candidate_frames, main) :
                    main \in {MainPass(c, dpi, kept) :
                                kept \in {KeptFrames(c, dpi, candidate_frames)}}} : TRUE

\* The body after validation, lines 255-382, for dpi > 0.
RankFrames(c, dpi) ==
    CHOOSE r \in {IF fan.raised # "" THEN Raised(fan.raised)
                  ELSE IF HasZeroBar(fan.frames)
                       THEN Raised("ZeroDivisionError")           \* lines 279-280
                       ELSE MainAndBackfill(c, dpi, fan.frames) :
                    fan \in {CandidateFrames(c, dpi)}} : TRUE

\* What a call returns (value) or raises (raised # ""), with the locals
\* candidate_frames and candidates (before the sort) and the length of candidates
\* when the main loop ends.
suggest_stretcher_frames(c) ==
    IF InputError(c) # "" THEN Raised(InputError(c))
    ELSE IF ImpliedDpi(c)[1] = 0 THEN Raised("ZeroDivisionError")   \* line 260
    ELSE RankFrames(c, ImpliedDpi(c))

\* A brute-force call that filters the module's pool in place.
FrameCandidatesFiltered(c, r) ==
    IF c.use_fan \/ r.raised # "" THEN _FRAME_CANDIDATES
    ELSE [i \in 1..Len(r.candidates) |-> <<r.candidates[i].bar_w, r.candidates[i].bar_h>>]

\* The call leaves the module's brute-force pool as it is: the list it sorts at
\* line 376 is the fresh list of line 277, never _FRAME_CANDIDATES itself.
FrameCandidatesAfter(c, r) == _FRAME_CANDIDATES

-----------------------------------------------------------------------------
(* The calls explored                                                      *)

MaxFanSpan == 2          \* fan_span ranges over 0..MaxFanSpan
MaxSuggestions == 8      \* the largest max_suggestions
MaxPrintIn == 64         \* _print_prices is asked for 1..MaxPrintIn on each side
SizeSlack == 2           \* get_stretcher_sizes arguments reach this far below the defaults
DEFAULT_TOLERANCE_PCT == 15

ImageA == <<4000, 2670>>
ImageB == <<1000, 2000>>
ImageC == <<5600, 5600>>
ImageD == <<8700, 8700>>

\* <<target_dpi, target_width_in, target_height_in>>; physical targets in half inches.
Dpi(d) == <<Some(d), None, None>>
WidthIn(w) == <<None, Some(w), None>>
HeightIn(h) == <<None, None, Some(h)>>

\* <<image, constraint, tolerance_pct>> with exactly one constraint.
Scenarios ==
    {<<ImageA, WidthIn(40), DEFAULT_TOLERANCE_PCT>>,    \* 20 in wide: 200 dpi
     <<ImageA, WidthIn(40), 5>>,
     <<ImageA, WidthIn(41), DEFAULT_TOLERANCE_PCT>>,    \* 20.5 in: rounds to 20
     <<ImageA, WidthIn(20), DEFAULT_TOLERANCE_PCT>>,    \* 400 dpi: no frame fits
     <<ImageA, WidthIn(1), DEFAULT_TOLERANCE_PCT>>,     \* 0.5 in: rounds to 0
     <<ImageA, HeightIn(27), DEFAULT_TOLERANCE_PCT>>,   \* 13.5 in: rounds to 14
     <<ImageA, Dpi(200), DEFAULT_TOLERANCE_PCT>>,
     <<ImageA, Dpi(200), 0>>,
     <<ImageA, Dpi(0), DEFAULT_TOLERANCE_PCT>>,
     <<ImageB, WidthIn(20), DEFAULT_TOLERANCE_PCT>>,    \* 10 in wide, 20 in tall
     <<ImageB, HeightIn(40), DEFAULT_TOLERANCE_PCT>>,
     <<ImageB, HeightIn(1), DEFAULT_TOLERANCE_PCT>>,
     <<ImageB, Dpi(100), DEFAULT_TOLERANCE_PCT>>,
     <<ImageC, Dpi(100), 5>>,                           \* 56 in square
     <<ImageC, WidthIn(112), 5>>,
     <<ImageC, HeightIn(110), 5>>,                      \* 55 in: in neither bar table
     <<ImageD, WidthIn(174), 2>>}                       \* 87 in: between 86 and 88

\* Not exactly one constraint, or a physical target that is not positive.
BadConstraints ==
    {<<None, None, None>>, <<Some(200), Some(40), None>>, <<None, Some(40), Some(40)>>,
     <<Some(200), None, Some(40)>>, <<Some(200), Some(40), Some(40)>>,
     WidthIn(0), WidthIn(-2), HeightIn(0), HeightIn(-40)}

SuggestionCounts == {0, 1, 3, MaxSuggestions}
\* <<use_fan, fan_span>>; fan_span is not read when use_fan is off.
Modes == {<<FALSE, 2>>} \cup {<<TRUE, f>> : f \in 0..MaxFanSpan}

MakeCall(im, k, tol, m, mode) ==
    [img_width_px |-> im[1], img_height_px |-> im[2],
     target_dpi |-> k[1], target_width_in |-> k[2], target_height_in |-> k[3],
     tolerance_pct |-> tol, max_suggestions |-> m,
     use_fan |-> mode[1], fan_span |-> mode[2]]

Calls ==
    {MakeCall(sc[1], sc[2], sc[3], m, mode) :
        sc \in Scenarios, m \in SuggestionCounts, mode \in Modes}
    \cup {MakeCall(ImageA, k, DEFAULT_TOLERANCE_PCT, m, mode) :
            k \in BadConstraints, m \in SuggestionCounts, mode \in Modes}

\* The calls whose repetition is followed.
RepeatCalls ==
    {MakeCall(ImageA, k, DEFAULT_TOLERANCE_PCT, m, mode) :
        k \in {WidthIn(40), HeightIn(27), Dpi(200)},
        m \in {3, MaxSuggestions},
        mode \in {<<FALSE, 2>>, <<TRUE, 2>>}}

NoCall == <<>>
NoResult == <<>>

-----------------------------------------------------------------------------
(* The state machine                                                       *)

\* Module import, lines 26-94.
Init ==
    /\ _STRETCHER_SIZES = get_stretcher_sizes(MIN_SIZE, MAX_SINGLE, MAX_DOUBLE)
    /\ _FRAME_CANDIDATES = CrossProduct(_STRETCHER_SIZES, _STRETCHER_SIZES)
    /\ HEAVY_PRICES = HeavyPricesTable
    /\ STANDARD_PRICES = StandardPricesTable
    /\ PRINT_PRICES = PrintPricesTable
    /\ _slope = FitSlope(PRINT_PRICES)
    /\ _intercept = FitIntercept(PRINT_PRICES, _slope)
    /\ pc = "idle"
    /\ call = NoCall
    /\ result = NoResult
    /\ memo = <<>>

Suggest(c) ==
    /\ pc = "idle"
    /\ pc' = "suggest"
    /\ call' = c
    /\ \E r \in {suggest_stretcher_frames(c)} :
           /\ result' = r
           /\ _FRAME_CANDIDATES' = FrameCandidatesAfter(c, r)
    /\ memo' = IF memo # <<>> /\ memo[1].call # c
               THEN <<[memo[1] EXCEPT !.interleaved = TRUE]>>
               ELSE memo
    /\ UNCHANGED <<_STRETCHER_SIZES, HEAVY_PRICES, STANDARD_PRICES, PRINT_PRICES,
                   _slope, _intercept>>

GetSizes(min_size, max_single, max_double) ==
    /\ pc = "idle"
    /\ pc' = "sizes"
    /\ call' = <<min_size, max_single, max_double>>
    /\ result' = get_stretcher_sizes(min_size, max_single, max_double)
    /\ UNCHANGED <<globals, memo>>

PrintPrices(width_in, height_in) ==
    /\ pc = "idle"
    /\ pc' = "print"
    /\ call' = <<width_in, height_in>>
    /\ result' = _print_prices(width_in, height_in)
    /\ UNCHANGED <<globals, memo>>

\* The caller is done with the result.
Return ==
    /\ pc # "idle"
    /\ pc' = "idle"
    /\ call' = NoCall
    /\ result' = NoResult
    /\ UNCHANGED <<globals, memo>>

\* The caller keeps the call and its result to compare a later call with;
\* interleaved tells whether a different call has been made since.
Remember ==
    /\ pc = "suggest"
    /\ memo = <<>>
    /\ memo' = <<[call |-> call, result |-> result, interleaved |-> FALSE]>>
    /\ pc' = "idle"
    /\ call' = NoCall
    /\ result' = NoResult
    /\ UNCHANGED globals

Next ==
    \/ \E c \in Calls : Suggest(c)
    \/ \E a \in (MIN_SIZE - SizeSlack)..MIN_SIZE, b \in (MAX_SINGLE - SizeSlack)..MAX_SINGLE,
          d \in (MAX_DOUBLE - SizeSlack)..MAX_DOUBLE : GetSizes(a, b, d)
    \/ \E w \in 1..MaxPrintIn, h \in 1..MaxPrintIn : PrintPrices(w, h)
    \/ Return

Spec == Init /\ [][Next]_vars

NextRepeat ==
    \/ \E c \in RepeatCalls : Suggest(c)
    \/ Return
    \/ Remember

SpecRepeat == Init /\ [][NextRepeat]_vars

MaxIdealIn == 102        \* _nearest_sizes is asked for 0, 0.5, 1, ..., MaxIdealIn inches

\* _nearest_sizes called on its own, x a rational <<num, den>>.
NearestSizes(x, fan) ==
    /\ pc = "idle"
    /\ pc' = "nearest"
    /\ call' = <<x, fan>>
    /\ result' = _nearest_sizes(x, fan)
    /\ UNCHANGED <<globals, memo>>

NextNearest ==
    \/ \E n \in 0..(2 * MaxIdealIn), fan \in 0..MaxFanSpan : NearestSizes(<<n, 2>>, fan)
    \/ Return

SpecNearest == Init /\ [][NextNearest]_vars

-----------------------------------------------------------------------------
(* Properties                                                              *)

Returned == pc = "suggest" /\ result.raised = ""

\* The constraints a call supplies.
Supplied(c) ==
    {n \in {"dpi", "width", "height"} :
        \/ n = "dpi" /\ ~IsNone(c.target_dpi)
        \/ n = "width" /\ ~IsNone(c.target_width_in)
        \/ n = "height" /\ ~IsNone(c.target_height_in)}

\* The target DPI of a call with exactly one constraint: the supplied DPI, or the
\* pixel dimension over the supplied physical dimension (given in half inches).
ClaimTargetDpi(c) ==
    IF Supplied(c) = {"dpi"} THEN <<Val(c.target_dpi), 1>>
    ELSE IF Supplied(c) = {"width"} THEN <<2 * c.img_width_px, Val(c.target_width_in)>>
    ELSE <<2 * c.img_height_px, Val(c.target_height_in)>>

\* q in [targetDpi * (1 - tol/100), targetDpi * (1 + tol/100)], q a rational.
ClaimWithinBand(c, q) ==
    LET t == ClaimTargetDpi(c)
        low == Frac(t[1] * (100 - c.tolerance_pct), 100 * t[2])
        high == Frac(t[1] * (100 + c.tolerance_pct), 100 * t[2])
    IN  ~FracLess(q, low) /\ ~FracLess(high, q)

IsBackfilled(e) == ~Contains(result.candidate_frames, <<e.bar_w, e.bar_h>>)

\* C1: every candidate a call returns, in brute-force mode, in fan mode and from
\* the back-fill, has dpiX = imgWidthPx / w and dpiY = imgHeightPx / h inside
\* [targetDpi * (1 - tol/100), targetDpi * (1 + tol/100)], bounds included.
C1_ReturnedInsideDpiBand ==
    Returned =>
        \A i \in 1..Len(result.value) :
            LET e == result.value[i]
            IN  /\ e.dpi_x = Frac(call.img_width_px, e.bar_w)
                /\ e.dpi_y = Frac(call.img_height_px, e.bar_h)
                /\ ClaimWithinBand(call, e.dpi_x)
                /\ ClaimWithinBand(call, e.dpi_y)

\* A fan call whose returned list holds a fan candidate and a back-filled one.
C1_Witness ==
    /\ Returned
    /\ call.use_fan
    /\ \E i, j \in 1..Len(result.value) :
          IsBackfilled(result.value[i]) /\ ~IsBackfilled(result.value[j])

ClaimPrimaryKey(e) ==
    IF e.pct_area_delta[1] < 0
    THEN <<-e.pct_area_delta[1], 3 * e.pct_area_delta[2]>>
    ELSE e.pct_area_delta

ClaimAdmissible(c, w, h) ==
    LET t == ClaimTargetDpi(c)
        low == t[1] * (100 - c.tolerance_pct)        \* times 100 * t[2]
        high == t[1] * (100 + c.tolerance_pct)
    IN  /\ low * w <= 100 * t[2] * c.img_width_px
        /\ 100 * t[2] * c.img_width_px <= high * w
        /\ low * h <= 100 * t[2] * c.img_height_px
        /\ 100 * t[2] * c.img_height_px <= high * h

\* The admissible pairs of the brute-force domain, in enumeration order.
ClaimAdmissiblePool ==
    SelectSeq(_FRAME_CANDIDATES, LAMBDA f : ClaimAdmissible(call, f[1], f[2]))

\* C4: in fan mode, when the fan yields k < max_suggestions candidates, the list
\* returned has min(max_suggestions, number of admissible pairs of the brute-force
\* domain) entries, and the first k entries before the sort are fan candidates.
C4_BackfillReachesBruteForceCount ==
    (Returned /\ call.use_fan /\ result.n_main < call.max_suggestions) =>
        /\ Len(result.value) = Min2(call.max_suggestions, Len(ClaimAdmissiblePool))
        /\ \A i \in 1..result.n_main :
              Contains(result.candidate_frames,
                       <<result.candidates[i].bar_w, result.candidates[i].bar_h>>)

\* C5 as worded: get_stretcher_sizes(14, 86, 98) is [14, ..., 86, 88, 90, ..., 98],
\* 73 single-step values and 7 double-step values, 80 entries.
C5_EightyEntries ==
    (pc = "sizes" /\ call = <<14, 86, 98>>) =>
        /\ result = SortedSeqOf((14..86) \cup {n \in 88..98 : n % 2 = 0})
        /\ Len(SelectSeq(result, LAMBDA n : n <= 86)) = 73
        /\ Len(SelectSeq(result, LAMBDA n : n > 86)) = 7
        /\ Len(result) = 80

\* C5, amended: get_stretcher_sizes(14, 86, 98) is [14, ..., 86, 88, 90, ..., 98],
\* 73 single-step values followed by 6 double-step values, 79 entries.
C5_SeventyNineEntries ==
    (pc = "sizes" /\ call = <<14, 86, 98>>) =>
        /\ result = SortedSeqOf((14..86) \cup {n \in 88..98 : n % 2 = 0})
        /\ Len(SelectSeq(result, LAMBDA n : n <= 86)) = 73
        /\ Len(SelectSeq(result, LAMBDA n : n > 86)) = 6
        /\ Len(result) = 79

\* get_stretcher_sizes has returned for the default arguments.
C5_Witness ==
    /\ pc = "sizes"
    /\ call = <<14, 86, 98>>
    /\ Len(result) > 0

\* Required physical area: (imgWidthPx / targetDpi) * (imgHeightPx / targetDpi).
ClaimReqArea(c) ==
    LET t == ClaimTargetDpi(c)
    IN  FracMul(Frac(c.img_width_px * t[2], t[1]), Frac(c.img_height_px * t[2], t[1]))

\* pctAreaDelta of the frame w x h: (w * h - reqArea) / reqArea * 100.
ClaimPctAreaDelta(c, w, h) ==
    LET r == ClaimReqArea(c)
    IN  Frac(100 * (w * h * r[2] - r[1]), r[1])

\* The ranking key <<primary, secondary>> of the frame w x h.
ClaimKey(c, w, h) ==
    LET d == ClaimPctAreaDelta(c, w, h)
    IN  <<IF d[1] < 0 THEN Frac(-d[1], 3 * d[2]) ELSE d,
          Frac(Abs(w * c.img_height_px - h * c.img_width_px), h * c.img_height_px)>>

\* Frame f ranks strictly before frame g.
ClaimBefore(c, f, g) ==
    LET kf == ClaimKey(c, f[1], f[2])
        kg == ClaimKey(c, g[1], g[2])
    IN  \/ FracLess(kf[1], kg[1])
        \/ (kf[1] = kg[1] /\ FracLess(kf[2], kg[2]))

ReturnedFrames == [i \in 1..Len(result.value) |-> <<result.value[i].bar_w, result.value[i].bar_h>>]

ClaimGradeCost(table, w, h) ==
    IF w \in DOMAIN table /\ h \in DOMAIN table
    THEN Some(2 * (table[w] + table[h]))
    ELSE None

Least(S) == CHOOSE m \in S : \A o \in S : m <= o

\* C7: for every returned entry, main pass or back-fill, a grade's bar cost is
\* 2 * (price(w) + price(h)) when the grade's table has both lengths and absent
\* otherwise; final_total is absent exactly when both grades are absent, and else
\* is the lesser bar cost plus the lesser of the print costs at hand (table price
\* + shipping, model price + shipping).
C7_CostStructure ==
    Returned =>
        \A i \in 1..Len(result.value) :
            LET e == result.value[i]
                heavy == ClaimGradeCost(HEAVY_PRICES, e.bar_w, e.bar_h)
                std == ClaimGradeCost(STANDARD_PRICES, e.bar_w, e.bar_h)
                bars == {Val(x) : x \in {heavy, std} \ {None}}
                pp == _print_prices(e.print_w, e.print_h)
                prints == {pp[2] + PRINT_SHIPPING_USD}
                          \cup {Val(x) + PRINT_SHIPPING_USD : x \in {pp[1]} \ {None}}
            IN  /\ e.heavy_cost = heavy
                /\ e.std_cost = std
                /\ IsNone(e.final_total) <=> bars = {}
                /\ bars # {} => e.final_total = Some(Least(bars) + Least(prints))

\* A returned list with a back-filled entry priced in one grade only, an entry
\* priced in neither, and an entry whose model print cost beats the table's.
C7_Witness ==
    /\ Returned
    /\ \E i, j, k \in 1..Len(result.value) :
          /\ IsBackfilled(result.value[i])
          /\ ~IsNone(result.value[i].heavy_cost)
          /\ IsNone(result.value[i].std_cost)
          /\ IsNone(result.value[j].final_total)
          /\ ~IsNone(result.value[k].final_total)
          /\ ~IsNone(result.value[k].print_cost_tbl)
          /\ result.value[k].print_cost_model < Val(result.value[k].print_cost_tbl)

\* The catalog entries at least as large as the request on both axes, the request
\* taken as (long side, short side).
ClaimDominating(width_in, height_in) ==
    LET long == IF width_in >= height_in THEN width_in ELSE height_in
        short == IF width_in >= height_in THEN height_in ELSE width_in
    IN  {k \in 1..Len(PRINT_PRICES) :
            PRINT_PRICES[k][1] >= long /\ PRINT_PRICES[k][2] >= short}

\* C8: the catalog size _print_prices returns dominates the request on both axes
\* (long side, short side); its price is the least price over all dominating
\* catalog entries; with no dominating entry the table price is absent and the
\* size is (0, 0); swapping width and height changes nothing in the lookup.
C8_PrintPriceLookup ==
    pc = "print" =>
        LET dominating == ClaimDominating(call[1], call[2])
            long == IF call[1] >= call[2] THEN call[1] ELSE call[2]
            short == IF call[1] >= call[2] THEN call[2] ELSE call[1]
            swapped == _print_prices(call[2], call[1])
        IN  /\ dominating = {} => (result[1] = None /\ result[3] = <<0, 0>>)
            /\ dominating # {} =>
                  /\ result[1] # None
                  /\ result[3][1] >= long
                  /\ result[3][2] >= short
                  /\ \E k \in dominating :
                        /\ result[3] = <<PRINT_PRICES[k][1], PRINT_PRICES[k][2]>>
                        /\ Val(result[1]) = 100 * PRINT_PRICES[k][3]
                  /\ \A k \in dominating : Val(result[1]) <= 100 * PRINT_PRICES[k][3]
            /\ swapped[1] = result[1]
            /\ swapped[3] = result[3]

\* A portrait request priced from a catalog size it only fits after the swap.
C8_Witness ==
    /\ pc = "print"
    /\ call[1] < call[2]
    /\ result[1] # None
    /\ result[3][2] < call[2]

\* C9: a call with exactly one constraint whose value is strictly positive, in
\* brute-force or fan mode and for any fan_span >= 0, returns a list and raises
\* nothing.
C9_ValidCallReturnsList ==
    (/\ pc = "suggest"
     /\ Cardinality(Supplied(call)) = 1
     /\ Supplied(call) = {"dpi"} => Val(call.target_dpi) > 0
     /\ Supplied(call) = {"width"} => Val(call.target_width_in) > 0
     /\ Supplied(call) = {"height"} => Val(call.target_height_in) > 0)
        => result.raised = ""

ClaimNearestBelow(S, fan) == {v \in S : Cardinality({t \in S : t > v}) < fan}
ClaimNearestAbove(S, fan) == {v \in S : Cardinality({t \in S : t < v}) < fan}

\* C11: _nearest_sizes(x, fan), fan >= 0, returns at most 2 * fan values, all of
\* the size domain, strictly ascending, and they are the (up to) fan domain values
\* at or below round(x) nearest to it with the (up to) fan domain values at or
\* above round(x) nearest to it.
C11_NearestSizes ==
    pc = "nearest" =>
        LET fan == call[2]
            x_round == PyRound(call[1][1], call[1][2])
            domain == {_STRETCHER_SIZES[i] : i \in 1..Len(_STRETCHER_SIZES)}
            below == {v \in domain : v <= x_round}
            above == {v \in domain : v >= x_round}
        IN  /\ Len(result) <= 2 * fan
            /\ \A i \in 1..Len(result) : result[i] \in domain
            /\ \A i \in 1..(Len(result) - 1) : result[i] < result[i + 1]
            /\ {result[i] : i \in 1..Len(result)}
                  = ClaimNearestBelow(below, fan) \cup ClaimNearestAbove(above, fan)

\* The values of get_stretcher_sizes(14, 86, 98).
ClaimSizeDomain == (14..86) \cup {n \in 88..98 : n % 2 = 0}

\* C12: every candidate suggest_stretcher_frames returns, in brute-force mode and
\* in fan mode, has its width and its height in the size domain
\* get_stretcher_sizes(14, 86, 98), and no (width, height) pair is returned twice.
C12_DrawnFromSizeDomain ==
    Returned =>
        /\ \A i \in 1..Len(result.value) :
              /\ result.value[i].bar_w \in ClaimSizeDomain
              /\ result.value[i].bar_h \in ClaimSizeDomain
        /\ \A i, j \in 1..Len(result.value) :
              i < j => ReturnedFrames[i] # ReturnedFrames[j]

====
